---- MODULE Spec2Model ----
(***************************************************************************)
(* A model of src/src/Client.js: the session bootstrap of                  *)
(* Client.initialize(), the qrChanged callback, Client.destroy(), and the   *)
(* host callbacks of the event bridge that initialize() exposes to the      *)
(* page (onAddMessageEvent, onChangeMessageEvent, onChangeMessageTypeEvent, *)
(* onAppStateChangedEvent).                                                 *)
(*                                                                         *)
(* Observation variables: `call` is the callback or step that ran last     *)
(* with its input, `emitted` the sequence of EventEmitter.emit calls that   *)
(* step made, in order, and `count` the number of lifecycle events emitted  *)
(* so far in the session.                                                   *)
(***************************************************************************)
EXTENDS Naturals, Sequences, FiniteSets

VARIABLES
    options,       \* this.options: qrMaxRetries, takeoverOnConflict, useDeprecatedSessionAuth
    pc,            \* position of initialize()
    error,         \* what initialize() threw, "none" while it has not
    pupBrowser,    \* this.pupBrowser: "null", "open", "closing" (close() called), "closed"
    screen,        \* what the page shows: "none", "qr" (QR marker), "main" (authenticated marker)
    qrRetries,     \* let qrRetries of the QR flow
    qrCalls,       \* number of qrChanged callbacks that have run
    destroyCalls,  \* number of calls of destroy()
    listening,     \* the Store listeners of lines 441-450 are installed
    last_message,  \* let last_message of the bridge, None while undefined
    call,          \* the step that ran last and its input
    emitted,       \* the events that step emitted, in order
    count,         \* lifecycle events emitted so far, by kind
    timers,        \* takeover timers set and not yet fired
    conflicts,     \* conflict notifications that set a takeover timer
    attempts,      \* takeover commands tried (timer callbacks that ran)
    logged,        \* takeover failures caught and logged
    seenIds,       \* the id.id of every record onChangeMessageEvent was called with
    loser,         \* the wait that lost the race of lines 144-155 and has not settled
    disk,          \* this.dataDir exists on disk
    cmd,           \* the command that ran last (logout), where it is and what it threw
    sent,          \* what the last sendMessage handed to the page, None before
    store,         \* window.Store of the page: the chat list, the command it runs, the groups
    observing      \* the observer of lines 181-197 watches the QR code of the document

vars == <<options, pc, error, pupBrowser, screen, qrRetries, qrCalls, destroyCalls,
          listening, last_message, call, emitted, count, timers, conflicts,
          attempts, logged, seenIds, loser, disk, cmd, sent, store, observing>>

lifeVarsNoCount == <<pc, error, pupBrowser, screen, qrRetries, qrCalls, destroyCalls, listening>>
takeoverVars == <<timers, conflicts, attempts, logged>>
bridgeVars == <<last_message, seenIds>>
auxVars == <<loser, disk, cmd, sent, store, observing>>

\* ---------------------------------------------------------------- bounds
MaxRetries == 2      \* largest options.qrMaxRetries tried
MaxQrCalls == 5      \* qrChanged callbacks delivered in one session
MaxConflicts == 3    \* conflict notifications that set a timer in one session
MaxDestroy == 2      \* calls of destroy() by the host

\* ---------------------------------------------------------------- values
None == [none |-> TRUE]

NoCall == [op |-> "none"]

NoCmd == [op |-> "none", pc |-> "none", issued |-> FALSE, error |-> "none"]

\* The Store while no model of it is needed.
NoStore == [chats |-> <<>>, pending |-> None, groups |-> {}]

\* The reason qrChanged gives when the QR retries are used up (line 171).
MaxRetriesReason == "Max qrcode retries reached"

Event(name, args) == [name |-> name, args |-> args]

Names(evts) == [i \in 1..Len(evts) |-> evts[i].name]

\* The kind an event is counted under: its name, `disconnected` split by reason.
Kind(e) ==
    IF e.name = "disconnected"
    THEN IF e.args = <<MaxRetriesReason>> THEN "disconnected_max_retries"
         ELSE "disconnected_other"
    ELSE e.name

\* The kinds counted over the session: what initialize() and qrChanged emit.
Counted == {"qr", "authenticated", "ready", "disconnected_max_retries"}

Occurrences(evts, kind) == Cardinality({i \in 1..Len(evts) : Kind(evts[i]) = kind})

\* EventEmitter.emit for a whole step: the events of the step, and the counts.
Emit(evts) ==
    /\ emitted' = evts
    /\ count' = [k \in Counted |-> count[k] + Occurrences(evts, k)]

\* ------------------------------------------------------------ the session
QrTokens == {"ref1", "ref2"}

\* A round trip to the page resolves while the browser is there, and rejects
\* once close() has been called on it; while it is closing either may happen.
RoundTripResolves == pupBrowser \in {"open", "closing"}
RoundTripRejects == pupBrowser \in {"closing", "closed"}

\* initialize() throws: the rest of it does not run.
Throw(err) ==
    /\ pc' = "failed"
    /\ error' = err

\* Browser.close() as called by destroy() (lines 469-471).
Close(b) == IF b = "open" THEN "closing" ELSE b

\* Lines 94-139: launch or connect, keep browser and page, load the page.
\* The browser is given this.dataDir as its profile directory (lines 96-99,
\* 64-68) unless useDeprecatedSessionAuth is set.
Launch ==
    /\ pc = "start"
    /\ pupBrowser' = "open"
    /\ \E s \in {"none", "qr", "main"} : screen' = s
    /\ pc' = "race"
    /\ disk' = ~options.useDeprecatedSessionAuth
    /\ call' = [op |-> "initialize", step |-> "launch"]
    /\ Emit(<<>>)
    /\ UNCHANGED <<options, store, observing, loser, cmd, sent, error, qrRetries, qrCalls, destroyCalls,
                   listening, bridgeVars, takeoverVars>>

\* Lines 146, 151: the marker each wait of the race waits for.
Marker(wait) == IF wait = "img" THEN "main" ELSE "qr"

\* Lines 145-154: a wait resolves when its marker is shown; it rejects when
\* no marker is shown for authTimeoutMs or when the page is gone.
SettlesFirst(wait, outcome) ==
    IF outcome = "found"
    THEN RoundTripResolves /\ screen = Marker(wait)
    ELSE screen = "none" \/ ~RoundTripResolves

\* The error of a wait that rejects.
WaitError == IF RoundTripResolves THEN "TimeoutError" ELSE "TargetClosed"

\* Mutant: the two markers are taken for each other.
needAuthentication_Swapped(wait, outcome) ==
    IF outcome = "error" THEN "Error"
    ELSE IF wait = "img" THEN "true" ELSE "false"

\* Lines 144-155: what the race gives, from the wait that settles first:
\* resolve(false) for the authenticated marker, resolve(true) for the QR
\* marker, resolve(err) for a wait that rejects.
needAuthentication(wait, outcome) ==
    IF outcome = "error" THEN "Error"
    ELSE IF wait = "img" THEN "false" ELSE "true"

\* Lines 144-161: the race is settled by the first wait to settle; the
\* other wait is left to settle later.
Race ==
    /\ pc = "race"
    /\ \E wait \in {"img", "qr"}, outcome \in {"found", "error"} :
          /\ SettlesFirst(wait, outcome)
          /\ LET r == needAuthentication(wait, outcome)
             IN  CASE r = "Error" -> Throw(WaitError)
                   [] r = "true" -> pc' = "qrExpose" /\ UNCHANGED error
                   [] OTHER -> pc' = "exposeStore" /\ UNCHANGED error
          /\ loser' = IF wait = "img" THEN "qr" ELSE "img"
          /\ call' = [op |-> "initialize", step |-> "race", wait |-> wait,
                      outcome |-> outcome,
                      err |-> IF outcome = "error" THEN WaitError ELSE "none"]
    /\ Emit(<<>>)
    /\ UNCHANGED <<options, store, observing, disk, cmd, sent, pupBrowser, screen, qrRetries, qrCalls,
                   destroyCalls, listening, bridgeVars, takeoverVars>>

\* Lines 147-148, 152-153: the wait that lost the race settles. Its
\* resolve() is a call on a promise the race no longer listens to.
RaceLoser ==
    /\ loser # "none"
    /\ \E outcome \in {"found", "error"} :
          /\ outcome = "found" => RoundTripResolves /\ screen = Marker(loser)
          /\ call' = [op |-> "initialize", step |-> "raceLoser", wait |-> loser,
                      outcome |-> outcome]
    /\ loser' = "none"
    /\ Emit(<<>>)
    /\ UNCHANGED <<options, store, observing, disk, cmd, sent, lifeVarsNoCount, bridgeVars, takeoverVars>>

\* Lines 165-166: let qrRetries = 0, expose qrChanged.
QrExpose ==
    /\ pc = "qrExpose"
    /\ RoundTripResolves
    /\ qrRetries' = 0
    /\ pc' = "qrEvaluate"
    /\ call' = [op |-> "initialize", step |-> "qrExpose"]
    /\ Emit(<<>>)
    /\ UNCHANGED <<options, auxVars, error, pupBrowser, screen, qrCalls, destroyCalls,
                   listening, bridgeVars, takeoverVars>>

\* Mutant: gives up one callback early.
Exhausted_AtMax(retries, max) == retries >= max

\* Line 170: the retries are used up.
Exhausted(retries, max) == retries > max

\* Lines 168-169: the counter after one callback.
NextRetries(retries, max) == IF max > 0 THEN retries + 1 ELSE retries

\* Lines 166-175: the qrChanged callback, up to its await of destroy().
qrChanged(qr, initial) ==
    LET max == options.qrMaxRetries
        n == NextRetries(qrRetries, max)
        gaveUp == max > 0 /\ Exhausted(n, max)
    IN  /\ qrRetries' = n
        /\ qrCalls' = qrCalls + 1
        /\ Emit(<<Event("qr", <<qr>>)>> \o
                (IF gaveUp THEN <<Event("disconnected", <<MaxRetriesReason>>)>> ELSE <<>>))
        /\ pupBrowser' = IF gaveUp THEN Close(pupBrowser) ELSE pupBrowser
        /\ destroyCalls' = IF gaveUp THEN destroyCalls + 1 ELSE destroyCalls
        /\ call' = [op |-> "qrChanged", qr |-> qr, initial |-> initial]

\* Lines 177-203: the page calls qrChanged with the current token and
\* installs the observer.
QrInitial ==
    /\ pc = "qrEvaluate"
    /\ RoundTripResolves
    /\ \E qr \in QrTokens : qrChanged(qr, TRUE)
    /\ observing' = TRUE
    /\ pc' = "waitScan"
    /\ UNCHANGED <<options, loser, disk, cmd, sent, store, error, screen, listening,
                   bridgeVars, takeoverVars>>

\* Lines 181-186: the observer sees a new data-ref and calls qrChanged.
QrRefresh ==
    /\ observing
    /\ qrCalls >= 1
    /\ qrCalls < MaxQrCalls
    /\ screen = "qr"
    /\ RoundTripResolves
    /\ \E qr \in QrTokens : qrChanged(qr, FALSE)
    /\ UNCHANGED <<options, auxVars, pc, error, screen, listening, bridgeVars, takeoverVars>>

\* The user scans the code while the page is there, the page of a browser
\* that is closing included: it shows the authenticated marker.
Scan ==
    /\ pc = "waitScan"
    /\ screen = "qr"
    /\ RoundTripResolves
    /\ screen' = "main"
    /\ call' = [op |-> "page", step |-> "scan"]
    /\ Emit(<<>>)
    /\ UNCHANGED <<options, auxVars, pc, error, pupBrowser, qrRetries, qrCalls, destroyCalls,
                   listening, bridgeVars, takeoverVars>>

\* Line 206: the wait for the scan, with no timeout, resolves.
WaitScan ==
    /\ pc = "waitScan"
    /\ screen = "main"
    /\ RoundTripResolves
    /\ pc' = "exposeStore"
    /\ call' = [op |-> "initialize", step |-> "waitScan"]
    /\ Emit(<<>>)
    /\ UNCHANGED <<options, auxVars, error, pupBrowser, screen, qrRetries, qrCalls, destroyCalls,
                   listening, bridgeVars, takeoverVars>>

\* Mutant: the option is left out and the wait has the default timeout.
WaitScanBounded_Default == TRUE

\* Line 206: { timeout: 0 }, the wait for the scan has no timeout.
WaitScanBounded == FALSE

\* Any await of initialize() on the page rejects once the browser is closed;
\* a wait with a timeout rejects when the timeout is over.
PageGone ==
    /\ pc \in {"qrExpose", "qrEvaluate", "waitScan", "exposeStore", "waitStore", "register"}
    /\ RoundTripRejects \/ (pc = "waitScan" /\ WaitScanBounded)
    /\ Throw(IF RoundTripRejects THEN "TargetClosed" ELSE "TimeoutError")
    /\ call' = [op |-> "initialize", step |-> "rejected"]
    /\ Emit(<<>>)
    /\ UNCHANGED <<options, auxVars, pupBrowser, screen, qrRetries, qrCalls, destroyCalls,
                   listening, bridgeVars, takeoverVars>>

\* Lines 211-224
authEventPayload == IF options.useDeprecatedSessionAuth THEN "session" ELSE "undefined"

\* Lines 209-230: expose the store, emit `authenticated`.
Authenticated ==
    /\ pc = "exposeStore"
    /\ RoundTripResolves
    /\ pc' = "waitStore"
    /\ call' = [op |-> "initialize", step |-> "authenticated"]
    /\ Emit(<<Event("authenticated", <<authEventPayload>>)>>)
    /\ UNCHANGED <<options, auxVars, error, pupBrowser, screen, qrRetries, qrCalls, destroyCalls,
                   listening, bridgeVars, takeoverVars>>

UnsupportedAuthEvents_AuthFailure ==
    <<Event("auth_failure", <<"UnsupportedAuth">>)>>

\* Lines 245-247: the refusal is a throw; nothing is emitted for it.
UnsupportedAuthEvents == <<>>

\* Lines 233-250: the store is there; JSON sessions are refused on MultiDevice.
StoreReady ==
    /\ pc = "waitStore"
    /\ RoundTripResolves
    /\ \E isMD \in BOOLEAN :
          IF options.useDeprecatedSessionAuth /\ isMD
          THEN Throw("UnsupportedAuth") /\ Emit(UnsupportedAuthEvents)
          ELSE pc' = "register" /\ UNCHANGED error /\ Emit(<<>>)
    /\ call' = [op |-> "initialize", step |-> "storeReady"]
    /\ UNCHANGED <<options, auxVars, pupBrowser, screen, qrRetries, qrCalls, destroyCalls,
                   listening, bridgeVars, takeoverVars>>

\* Lines 253-450: utilities, info, the exposed callbacks, the Store listeners.
Register ==
    /\ pc = "register"
    /\ RoundTripResolves
    /\ listening' = TRUE
    /\ pc' = "emitReady"
    /\ call' = [op |-> "initialize", step |-> "register"]
    /\ Emit(<<>>)
    /\ UNCHANGED <<options, auxVars, error, pupBrowser, screen, qrRetries, qrCalls, destroyCalls,
                   bridgeVars, takeoverVars>>

\* The identifiers in scope at line 456. `loggedAndTimeouted`, the argument
\* of the emit, is declared nowhere in the file.
InScope == {"this", "Events", "page", "browser", "credentials", "last_message",
            "needAuthentication", "isMD", "authEventPayload", "response"}

\* Line 456: this.emit(Events.READY, loggedAndTimeouted). The argument is
\* evaluated first: an undeclared identifier throws a ReferenceError and
\* emit is not called. Lines 460-463 run only after the emit.
EmitReady ==
    /\ pc = "emitReady"
    /\ IF "loggedAndTimeouted" \in InScope
       THEN /\ Emit(<<Event("ready", <<"loggedAndTimeouted">>)>>)
            /\ pc' = "done"
            /\ UNCHANGED error
       ELSE /\ Emit(<<>>)
            /\ Throw("ReferenceError")
    /\ call' = [op |-> "initialize", step |-> "emitReady"]
    /\ UNCHANGED <<options, auxVars, pupBrowser, screen, qrRetries, qrCalls, destroyCalls,
                   listening, bridgeVars, takeoverVars>>

\* The browser that close() was called on is gone.
BrowserClosed ==
    /\ pupBrowser = "closing"
    /\ pupBrowser' = "closed"
    /\ call' = [op |-> "page", step |-> "closed"]
    /\ Emit(<<>>)
    /\ UNCHANGED <<options, auxVars, pc, error, screen, qrRetries, qrCalls, destroyCalls,
                   listening, bridgeVars, takeoverVars>>

\* Lines 456-463: the framenavigated handler is registered after the emit
\* of line 456 has returned.
Watching == pc = "done"

\* Lines 441-450, 460-463: the page navigates once initialize() has ended.
\* The listeners of line 441 and the observer of line 181 were put on the
\* document that is left; the handler of line 460, if it is registered,
\* emits `disconnected`.
Navigate ==
    /\ pc \in {"done", "failed"}
    /\ pupBrowser = "open"
    /\ \E s \in {"qr", "main"} : screen' = s
    /\ listening' = FALSE
    /\ observing' = FALSE
    /\ call' = [op |-> "page", step |-> "navigated", installed |-> listening]
    /\ Emit(IF Watching THEN <<Event("disconnected", <<"NAVIGATION">>)>> ELSE <<>>)
    /\ UNCHANGED <<options, loser, disk, cmd, sent, store, pc, error, pupBrowser, qrRetries, qrCalls,
                   destroyCalls, bridgeVars, takeoverVars>>

\* The value of Events.PAGE_CLOSED (util/Constants): an event of its own,
\* or the name of `disconnected`.
PAGE_CLOSED == {"page_closed", "disconnected"}

\* Lines 127-129: the page is closed (the tab is closed, the page crashes)
\* and its close handler emits Events.PAGE_CLOSED, with no argument. No
\* round trip to the page resolves afterwards.
PageClosed ==
    /\ pc # "start"
    /\ pupBrowser = "open"
    /\ pupBrowser' = "closed"
    /\ \E name \in PAGE_CLOSED : Emit(<<Event(name, <<>>)>>)
    /\ call' = [op |-> "page", step |-> "pageClosed"]
    /\ UNCHANGED <<options, auxVars, pc, error, screen, qrRetries, qrCalls,
                   destroyCalls, listening, bridgeVars, takeoverVars>>

\* The state after the constructor (lines 53-74).
Init ==
    /\ options \in [qrMaxRetries : 0..MaxRetries,
                    takeoverOnConflict : BOOLEAN,
                    useDeprecatedSessionAuth : BOOLEAN]
    /\ pc = "start"
    /\ error = "none"
    /\ pupBrowser = "null"
    /\ screen = "none"
    /\ qrRetries = 0
    /\ qrCalls = 0
    /\ destroyCalls = 0
    /\ listening = FALSE
    /\ last_message = None
    /\ call = NoCall
    /\ emitted = <<>>
    /\ count = [k \in Counted |-> 0]
    /\ timers = 0
    /\ conflicts = 0
    /\ attempts = 0
    /\ logged = 0
    /\ seenIds = {}
    /\ loser = "none"
    /\ disk = FALSE
    /\ cmd = NoCmd
    /\ sent = None
    /\ store = NoStore
    /\ observing = FALSE

Next ==
    \/ Launch
    \/ Race
    \/ RaceLoser
    \/ QrExpose
    \/ QrInitial
    \/ QrRefresh
    \/ Scan
    \/ WaitScan
    \/ PageGone
    \/ Authenticated
    \/ StoreReady
    \/ Register
    \/ EmitReady
    \/ BrowserClosed
    \/ Navigate
    \/ PageClosed

Spec == Init /\ [][Next]_vars

\* ----------------------------------------------------------- event bridge
\* The records the Store listeners hand over (window.WWebJS.getMessageModel
\* of the Store's message): the fields the callbacks read, and a body.
MsgIds == [fromMe : BOOLEAN, id : {"A", "B"}]

Msg(id, type, subtype, isNewMsg, body) ==
    [id |-> id, type |-> type, subtype |-> subtype, isNewMsg |-> isNewMsg, body |-> body]

GroupSubtypes == {"add", "invite", "remove", "leave", "subject"}

\* Records of the `add` notification: chat messages, revoked ones, group notifications.
AddMsgs ==
    {Msg(id, "chat", "none", n, "hello") : id \in MsgIds, n \in BOOLEAN}
    \cup {Msg(id, "revoked", "none", n, "none") : id \in MsgIds, n \in BOOLEAN}
    \cup {Msg(id[1], "gp2", id[2], n, "none") : id \in MsgIds \X GroupSubtypes, n \in BOOLEAN}

\* Records of the `change` and `change:type` notifications.
ChangeMsgs ==
    {Msg(id, "chat", "none", TRUE, b) : id \in MsgIds, b \in {"hello", "edited"}}
    \cup {Msg(id, "revoked", "none", TRUE, "none") : id \in MsgIds}

\* Mutant: `invite` is not taken for a join.
GroupEvent_AddOnly(subtype) ==
    IF subtype = "add" THEN "group_join"
    ELSE IF subtype = "remove" \/ subtype = "leave" THEN "group_leave"
    ELSE "group_update"

\* Lines 271-296: the event of a group notification.
GroupEvent(subtype) ==
    IF subtype = "add" \/ subtype = "invite" THEN "group_join"
    ELSE IF subtype = "remove" \/ subtype = "leave" THEN "group_leave"
    ELSE "group_update"

\* Mutant: the isNewMsg check of line 269 is missing.
onAddMessageEvent_NoNewCheck(msg) ==
    IF msg.type = "gp2" THEN <<Event(GroupEvent(msg.subtype), <<msg>>)>>
    ELSE <<Event("message_create", <<msg>>)>> \o
         (IF msg.id.fromMe THEN <<>> ELSE <<Event("message", <<msg>>)>>)

\* Mutant: the fromMe check of line 307 is missing.
onAddMessageEvent_NoFromMeCheck(msg) ==
    IF ~msg.isNewMsg THEN <<>>
    ELSE IF msg.type = "gp2" THEN <<Event(GroupEvent(msg.subtype), <<msg>>)>>
    ELSE <<Event("message_create", <<msg>>), Event("message", <<msg>>)>>

\* Lines 268-315: what onAddMessageEvent emits.
onAddMessageEvent(msg) ==
    IF ~msg.isNewMsg THEN <<>>
    ELSE IF msg.type = "gp2" THEN <<Event(GroupEvent(msg.subtype), <<msg>>)>>
    ELSE <<Event("message_create", <<msg>>)>> \o
         (IF msg.id.fromMe THEN <<>> ELSE <<Event("message", <<msg>>)>>)

\* Mutant: any cached record is taken for the revoked message's.
SameMessage_NoIdCheck(last, msg) == last # None

\* Line 324: the cached record is the one of the revoked message.
SameMessage(last, msg) == last # None /\ msg.id.id = last.id.id

\* Lines 319-338: what onChangeMessageTypeEvent emits; revoked_msg stays
\* undefined (None) unless the cached record has the id of msg.
onChangeMessageTypeEvent(msg, last) ==
    IF msg.type = "revoked"
    THEN <<Event("message_revoke_everyone",
                 <<msg, IF SameMessage(last, msg) THEN last ELSE None>>)>>
    ELSE <<>>

onChangeMessageEvent_CacheRevoked(msg, last) == msg

\* Mutant: only the first record is cached.
onChangeMessageEvent_KeepFirst(msg, last) ==
    IF msg.type # "revoked" /\ last = None THEN msg ELSE last

\* Lines 340-346: last_message after onChangeMessageEvent.
onChangeMessageEvent(msg, last) == IF msg.type # "revoked" THEN msg ELSE last

\* The page is there and its Store listeners call the exposed callbacks.
Delivering == listening /\ RoundTripResolves

\* Line 442: Store.Msg.on('add').
StoreMsgAdd ==
    /\ Delivering
    /\ \E msg \in AddMsgs :
          /\ Emit(IF msg.isNewMsg THEN onAddMessageEvent(msg) ELSE <<>>)
          /\ call' = [op |-> "add", msg |-> msg]
    /\ UNCHANGED <<options, auxVars, lifeVarsNoCount, bridgeVars, takeoverVars>>

\* Line 443: Store.Msg.on('change').
StoreMsgChange ==
    /\ Delivering
    /\ \E msg \in ChangeMsgs :
          /\ last_message' = onChangeMessageEvent(msg, last_message)
          /\ seenIds' = seenIds \cup {msg.id.id}
          /\ call' = [op |-> "change", msg |-> msg]
    /\ Emit(<<>>)
    /\ UNCHANGED <<options, auxVars, lifeVarsNoCount, takeoverVars>>

\* Line 444: Store.Msg.on('change:type').
StoreMsgChangeType ==
    /\ Delivering
    /\ \E msg \in ChangeMsgs :
          /\ Emit(onChangeMessageTypeEvent(msg, last_message))
          /\ call' = [op |-> "changeType", msg |-> msg]
    /\ UNCHANGED <<options, auxVars, lifeVarsNoCount, bridgeVars, takeoverVars>>

\* Lines 348-360: what onRemoveMessageEvent emits.
onRemoveMessageEvent(msg) ==
    IF ~msg.isNewMsg THEN <<>> ELSE <<Event("message_revoke_me", <<msg>>)>>

\* Lines 362-374: what onMessageAckEvent emits.
onMessageAckEvent(msg, ack) == <<Event("message_ack", <<msg, ack>>)>>

\* Lines 376-387: what onMessageMediaUploadedEvent emits.
onMessageMediaUploadedEvent(msg) == <<Event("media_uploaded", <<msg>>)>>

\* Lines 423-439: what onIncomingCall emits.
onIncomingCall(c) == <<Event("incoming_call", <<c>>)>>

MediaUploaded_NoUnsentCheck(msg, unsent) == msg.id.fromMe

\* Line 446: if (msg.id.fromMe && !unsent)
MediaUploaded(msg, unsent) == msg.id.fromMe /\ ~unsent

\* Line 447: Store.Msg.on('remove').
StoreMsgRemove ==
    /\ Delivering
    /\ \E msg \in {m \in AddMsgs : m.type = "chat"} :
          /\ Emit(IF msg.isNewMsg THEN onRemoveMessageEvent(msg) ELSE <<>>)
          /\ call' = [op |-> "remove", msg |-> msg]
    /\ UNCHANGED <<options, auxVars, lifeVarsNoCount, bridgeVars, takeoverVars>>

\* Line 445: Store.Msg.on('change:ack').
StoreMsgAck ==
    /\ Delivering
    /\ \E msg \in ChangeMsgs, ack \in 1..2 :
          /\ Emit(onMessageAckEvent(msg, ack))
          /\ call' = [op |-> "ack", msg |-> msg, ack |-> ack]
    /\ UNCHANGED <<options, auxVars, lifeVarsNoCount, bridgeVars, takeoverVars>>

\* Line 446: Store.Msg.on('change:isUnsentMedia').
StoreMsgUnsentMedia ==
    /\ Delivering
    /\ \E msg \in ChangeMsgs, unsent \in BOOLEAN :
          /\ Emit(IF MediaUploaded(msg, unsent) THEN onMessageMediaUploadedEvent(msg)
                  ELSE <<>>)
          /\ call' = [op |-> "isUnsentMedia", msg |-> msg, unsent |-> unsent]
    /\ UNCHANGED <<options, auxVars, lifeVarsNoCount, bridgeVars, takeoverVars>>

\* Line 449: Store.Call.on('add').
StoreCallAdd ==
    /\ Delivering
    /\ \E c \in {[id |-> "call1", isGroup |-> FALSE]} :
          /\ Emit(onIncomingCall(c))
          /\ call' = [op |-> "incomingCall", call |-> c]
    /\ UNCHANGED <<options, auxVars, lifeVarsNoCount, bridgeVars, takeoverVars>>

\* The state initialize() leaves once line 441 has installed the listeners.
InitBridge ==
    /\ options \in [qrMaxRetries : {0},
                    takeoverOnConflict : BOOLEAN,
                    useDeprecatedSessionAuth : {FALSE}]
    /\ pc = "failed"
    /\ error = "ReferenceError"
    /\ pupBrowser = "open"
    /\ screen = "main"
    /\ qrRetries = 0
    /\ qrCalls = 0
    /\ destroyCalls = 0
    /\ listening = TRUE
    /\ last_message = None
    /\ call = [op |-> "initialize", step |-> "emitReady"]
    /\ emitted = <<>>
    /\ count = [k \in Counted |-> IF k = "authenticated" THEN 1 ELSE 0]
    /\ timers = 0
    /\ conflicts = 0
    /\ attempts = 0
    /\ logged = 0
    /\ seenIds = {}
    /\ loser = "none"
    /\ disk = TRUE
    /\ cmd = NoCmd
    /\ sent = None
    /\ store = NoStore
    /\ observing = FALSE

NextBridge ==
    \/ StoreMsgAdd
    \/ StoreMsgChange
    \/ StoreMsgChangeType
    \/ StoreMsgRemove
    \/ StoreMsgAck
    \/ StoreMsgUnsentMedia
    \/ StoreCallAdd

SpecBridge == InitBridge /\ [][NextBridge]_vars

\* ------------------------------------------------------- connection state
\* The values of WAState the handler names (lines 398, 401) and two others.
ConnectionStates ==
    {"CONNECTED", "OPENING", "PAIRING", "TIMEOUT", "CONFLICT", "UNPAIRED", "UNLAUNCHED"}

\* Mutant: timeout is not accepted.
ACCEPTED_STATES_NoTimeout(takeoverOnConflict) ==
    {"CONNECTED", "OPENING", "PAIRING"}
    \cup (IF takeoverOnConflict THEN {"CONFLICT"} ELSE {})

\* Mutant: conflict is not pushed to the accepted states.
ACCEPTED_STATES_NoConflict(takeoverOnConflict) ==
    {"CONNECTED", "OPENING", "PAIRING", "TIMEOUT"}

\* Lines 398-402
ACCEPTED_STATES(takeoverOnConflict) ==
    {"CONNECTED", "OPENING", "PAIRING", "TIMEOUT"}
    \cup (IF takeoverOnConflict THEN {"CONFLICT"} ELSE {})

\* Lines 400-410: the handler sets a takeover timer.
SetsTakeover(state, takeoverOnConflict) == takeoverOnConflict /\ state = "CONFLICT"

\* Lines 389-421: what onAppStateChangedEvent emits.
onAppStateChangedEvent(state, takeoverOnConflict) ==
    <<Event("change_state", <<state>>)>> \o
    (IF state \notin ACCEPTED_STATES(takeoverOnConflict)
     THEN <<Event("disconnected", <<state>>)>>
     ELSE <<>>)

DestroyOnDisconnect_Called == TRUE

\* Line 419: // this.destroy(); the handler does not call destroy().
DestroyOnDisconnect == FALSE

CancelsTakeover_OnConnected(state) == state = "CONNECTED"

\* Lines 389-421: the handle setTimeout returns (line 404) is not kept and
\* the file calls clearTimeout nowhere: no notification cancels the timers
\* that are pending.
CancelsTakeover(state) == FALSE

\* Line 448: Store.AppState.on('change:state').
AppStateChanged ==
    /\ Delivering
    /\ \E state \in ConnectionStates :
          LET sets == SetsTakeover(state, options.takeoverOnConflict)
              destroys == /\ DestroyOnDisconnect
                          /\ state \notin ACCEPTED_STATES(options.takeoverOnConflict)
          IN  /\ sets => conflicts < MaxConflicts
              /\ Emit(onAppStateChangedEvent(state, options.takeoverOnConflict))
              /\ timers' = IF sets THEN timers + 1
                           ELSE IF CancelsTakeover(state) THEN 0 ELSE timers
              /\ conflicts' = IF sets THEN conflicts + 1 ELSE conflicts
              /\ pupBrowser' = IF destroys THEN Close(pupBrowser) ELSE pupBrowser
              /\ destroyCalls' = IF destroys THEN destroyCalls + 1 ELSE destroyCalls
              /\ call' = [op |-> "appState", state |-> state]
    /\ UNCHANGED <<options, auxVars, pc, error, screen, qrRetries, qrCalls, listening,
                   bridgeVars, attempts, logged>>

\* Lines 404-408: a takeover timer fires. The evaluate resolves, or it
\* rejects (the page function throws, the page is gone) and the catch logs.
\* The callback reads neither the connection state nor the browser; the step
\* records the state notified just before it, "none" after any other step.
TakeoverTimer ==
    /\ timers > 0
    /\ timers' = timers - 1
    /\ attempts' = attempts + 1
    /\ \E resolves \in BOOLEAN :
          /\ resolves => RoundTripResolves
          /\ logged' = IF resolves THEN logged ELSE logged + 1
          /\ call' = [op |-> "takeover", resolved |-> resolves,
                      state |-> IF call.op = "appState" THEN call.state ELSE "none"]
    /\ Emit(<<>>)
    /\ UNCHANGED <<options, auxVars, lifeVarsNoCount, bridgeVars, conflicts>>

\* Lines 469-471: the host calls destroy().
Destroy ==
    /\ pupBrowser # "null"
    /\ destroyCalls < MaxDestroy
    /\ pupBrowser' = Close(pupBrowser)
    /\ destroyCalls' = destroyCalls + 1
    /\ call' = [op |-> "destroy"]
    /\ Emit(<<>>)
    /\ UNCHANGED <<options, auxVars, pc, error, screen, qrRetries, qrCalls, listening,
                   bridgeVars, takeoverVars>>

NextAppState ==
    \/ AppStateChanged
    \/ TakeoverTimer
    \/ Destroy
    \/ BrowserClosed

SpecAppState == InitBridge /\ [][NextAppState]_vars

\* A timer that was set fires.
SpecAppStateFair == SpecAppState /\ WF_vars(TakeoverTimer)

\* ----------------------------------------------------------------- logout
\* Lines 64-68: this.dataDir is set unless useDeprecatedSessionAuth is.
DataDirSet == ~options.useDeprecatedSessionAuth

\* JavaScript values, as far as fs.rmSync tells them apart.
Str(v) == [type |-> "string", value |-> v]
Obj(v) == [type |-> "object", value |-> v]

\* Function.prototype.call(thisArg, ...args): the first argument is the
\* `this` of the call, the others are the arguments of the function.
FunctionCall(thisArg, args) == [this |-> thisArg, args |-> args]

\* Line 482: (fs.rmSync ? fs.rmSync : fs.rmdirSync).call(this.dataDir, {recursive: true})
RmCall == FunctionCall(Str("dataDir"), <<Obj("recursive")>>)

\* fs.rmSync(path, options), fs.rmdirSync(path, options): a path that is
\* no string (Buffer, URL) is a TypeError and nothing is removed.
RmThrows(c) == Len(c.args) = 0 \/ c.args[1].type # "string"

\* Lines 477-479: logout() is called and awaits the logout of the page.
LogoutEvaluate ==
    /\ cmd.op = "none" \/ cmd.pc \in {"done", "failed"}
    /\ pupBrowser # "null"
    /\ \E resolves \in BOOLEAN :
          /\ resolves => RoundTripResolves
          /\ ~resolves => RoundTripRejects
          /\ cmd' = IF resolves
                    THEN [op |-> "logout", pc |-> "remove", issued |-> TRUE, error |-> "none"]
                    ELSE [op |-> "logout", pc |-> "failed", issued |-> FALSE,
                          error |-> "TargetClosed"]
    /\ call' = [op |-> "logout", step |-> "evaluate"]
    /\ Emit(<<>>)
    /\ UNCHANGED <<options, store, observing, loser, disk, sent, lifeVarsNoCount, bridgeVars, takeoverVars>>

\* Lines 481-483: the session directory is removed, if there is one.
LogoutRemove ==
    /\ cmd.op = "logout" /\ cmd.pc = "remove"
    /\ IF ~DataDirSet
       THEN /\ cmd' = [cmd EXCEPT !.pc = "done"]
            /\ UNCHANGED disk
       ELSE IF RmThrows(RmCall)
       THEN /\ cmd' = [cmd EXCEPT !.pc = "failed", !.error = "TypeError"]
            /\ UNCHANGED disk
       ELSE /\ cmd' = [cmd EXCEPT !.pc = "done"]
            /\ disk' = FALSE
    /\ call' = [op |-> "logout", step |-> "remove"]
    /\ Emit(<<>>)
    /\ UNCHANGED <<options, store, observing, loser, sent, lifeVarsNoCount, bridgeVars, takeoverVars>>

\* A session whose initialize() has ended, with any options.
InitLogout ==
    /\ options \in [qrMaxRetries : 0..MaxRetries,
                    takeoverOnConflict : BOOLEAN,
                    useDeprecatedSessionAuth : BOOLEAN]
    /\ pc = "failed"
    /\ error = "ReferenceError"
    /\ pupBrowser = "open"
    /\ screen = "main"
    /\ qrRetries = 0
    /\ qrCalls = 0
    /\ destroyCalls = 0
    /\ listening = TRUE
    /\ last_message = None
    /\ call = [op |-> "initialize", step |-> "emitReady"]
    /\ emitted = <<>>
    /\ count = [k \in Counted |-> IF k = "authenticated" THEN 1 ELSE 0]
    /\ timers = 0
    /\ conflicts = 0
    /\ attempts = 0
    /\ logged = 0
    /\ seenIds = {}
    /\ loser = "none"
    /\ disk = DataDirSet
    /\ cmd = NoCmd
    /\ sent = None
    /\ store = NoStore
    /\ observing = FALSE

NextLogout ==
    \/ LogoutEvaluate
    \/ LogoutRemove
    \/ Navigate
    \/ Destroy
    \/ BrowserClosed
    \/ PageClosed

SpecLogout == InitLogout /\ [][NextLogout]_vars

\* ------------------------------------------------------------ sendMessage
MaxContacts == 2     \* longest array of contacts sent

\* JavaScript values of sendMessage: booleans, instances of the library's
\* classes and arrays.
Bool(b) == [type |-> "boolean", value |-> b]

Instance(class, fields) == [type |-> "object", class |-> class, fields |-> fields]

InstanceOf(v, class) == v # None /\ v.type = "object" /\ v.class = class

MessageMedia(mimetype) == Instance("MessageMedia", [mimetype |-> mimetype])

Location == Instance("Location", [latitude |-> 1])

Contact(id) == Instance("Contact", [id |-> id])

Array(items) == Instance("Array", items)

Buttons(type, body) == Instance("Buttons", [type |-> type, body |-> body])

List == Instance("List", [title |-> "list"])

\* if (v): undefined, false and '' are falsy, objects are truthy.
Truthy(v) ==
    IF v = None THEN FALSE
    ELSE IF v.type = "boolean" THEN v.value
    ELSE v # Str("")

\* A mimetype is <<type, subtype>>; String.prototype.startsWith on its type.
StartsWith(mimetype, prefix) == Len(mimetype) > 0 /\ mimetype[1] = prefix

Mimetypes == {<<"image", "png">>, <<"video", "mp4">>}

ContactIds == {"c1", "c2"}

ContactArrays ==
    UNION {[1..n -> {Contact(i) : i \in ContactIds}] : n \in 0..MaxContacts}

Contents ==
    {Str("hi"), Location, List, Array(<<Str("x")>>),
     Buttons("chat", Str("body")), Buttons("media", MessageMedia(<<"image", "png">>))}
    \cup {MessageMedia(m) : m \in Mimetypes}
    \cup {Contact(i) : i \in ContactIds}
    \cup {Array(a) : a \in ContactArrays}

\* The options of a call (MessageSendOptions, lines 509-527, and `extra`).
SendOptions ==
    [media : {None} \cup {MessageMedia(m) : m \in Mimetypes},
     sendMediaAsSticker : {None, Bool(TRUE), Bool(FALSE)},
     caption : {None, Str("cap")},
     sendSeen : {None, Bool(TRUE), Bool(FALSE)},
     stickerName : {None, Str("name")},
     stickerAuthor : {None, Str("author")},
     stickerCategories : {None},
     extra : {None, [location |-> Location],
              [attachment |-> MessageMedia(<<"video", "mp4">>)]}]

\* { ...rec, ...extra }: a key of extra replaces the key of rec.
Spread(rec, extra) ==
    [k \in DOMAIN rec |-> IF k \in DOMAIN extra THEN extra[k] ELSE rec[k]]

\* Lines 538-548: the record built from the options, before the content
\* is looked at.
internalOptions(opts) ==
    LET own == [sendMediaAsSticker |-> opts.sendMediaAsSticker,
                caption |-> opts.caption,
                attachment |-> None,
                location |-> None,
                contactCard |-> None,
                contactCardList |-> None,
                buttons |-> None,
                list |-> None]
    IN  IF opts.extra = None THEN own ELSE Spread(own, opts.extra)

\* Line 550.
sendSeen(opts) == IF opts.sendSeen = None THEN Bool(TRUE) ELSE opts.sendSeen

\* contact.id._serialized
Serialized(contact) == Str(contact.fields.id)

\* Line 566: Array.isArray(content) && content.length > 0 && content[0] instanceof Contact
IsContactArray(content) ==
    /\ InstanceOf(content, "Array")
    /\ Len(content.fields) > 0
    /\ InstanceOf(content.fields[1], "Contact")

ButtonsAttachment_Always(content, attachment) == content.fields.body

\* Line 570: if(content.type !== 'chat'){internalOptions.attachment = content.body;}
ButtonsAttachment(content, attachment) ==
    IF content.fields.type # "chat" THEN content.fields.body ELSE attachment

\* Lines 552-576: the first branch that matches decides the message and
\* the fields of internalOptions.
Resolve(content, opts) ==
    LET io == internalOptions(opts)
        empty == Str("")
    IN  IF InstanceOf(content, "MessageMedia")
        THEN [message |-> empty, options |-> [io EXCEPT !.attachment = content]]
        ELSE IF InstanceOf(opts.media, "MessageMedia")
        THEN [message |-> empty,
              options |-> [io EXCEPT !.attachment = opts.media, !.caption = content]]
        ELSE IF InstanceOf(content, "Location")
        THEN [message |-> empty, options |-> [io EXCEPT !.location = content]]
        ELSE IF InstanceOf(content, "Contact")
        THEN [message |-> empty, options |-> [io EXCEPT !.contactCard = Serialized(content)]]
        ELSE IF IsContactArray(content)
        THEN [message |-> empty,
              options |-> [io EXCEPT !.contactCardList =
                              Array([i \in 1..Len(content.fields) |->
                                        Serialized(content.fields[i])])]]
        ELSE IF InstanceOf(content, "Buttons")
        THEN [message |-> empty,
              options |-> [io EXCEPT !.attachment = ButtonsAttachment(content, io.attachment),
                                     !.buttons = content]]
        ELSE IF InstanceOf(content, "List")
        THEN [message |-> empty, options |-> [io EXCEPT !.list = content]]
        ELSE [message |-> content, options |-> io]

\* Line 578.
NeedsSticker(io) == Truthy(io.sendMediaAsSticker) /\ Truthy(io.attachment)

StickerConverter_Swapped(attachment) ==
    IF StartsWith(attachment.fields.mimetype, "image")
    THEN "formatToWebpSticker" ELSE "toStickerData"

\* Lines 579-593: window.WWebJS.toStickerData for an image,
\* Util.formatToWebpSticker for anything else.
StickerConverter(attachment) ==
    IF StartsWith(attachment.fields.mimetype, "image")
    THEN "toStickerData" ELSE "formatToWebpSticker"

\* Lines 582-586, 589-592: the second argument of either converter.
Metadata(opts) ==
    [name |-> opts.stickerName,
     author |-> opts.stickerAuthor,
     categories |-> opts.stickerCategories]

\* What a converter gives back.
Sticker(converter, attachment, metadata) ==
    Instance("Sticker", [by |-> converter, of |-> attachment, metadata |-> metadata])

\* Lines 537-578: sendMessage is called; it runs up to its first await.
sendMessage ==
    /\ cmd = NoCmd
    /\ pupBrowser # "null"
    /\ \E content \in Contents, o \in SendOptions :
          LET r == Resolve(content, o) IN
          /\ sent' = [content |-> content,
                      sendOptions |-> o,
                      message |-> r.message,
                      internalOptions |-> r.options,
                      resolved |-> r.options.attachment,
                      sendSeen |-> sendSeen(o),
                      converters |-> <<>>,
                      dispatched |-> FALSE,
                      seen |-> FALSE,
                      seenRejected |-> FALSE]
          /\ cmd' = [op |-> "sendMessage",
                     pc |-> IF NeedsSticker(r.options) THEN "sticker" ELSE "dispatch",
                     issued |-> FALSE,
                     error |-> "none"]
    /\ call' = [op |-> "sendMessage", step |-> "resolve"]
    /\ Emit(<<>>)
    /\ UNCHANGED <<options, store, observing, loser, disk, lifeVarsNoCount, bridgeVars, takeoverVars>>

\* Lines 579-593: the converter is called and settles. toStickerData is a
\* round trip to the page; formatToWebpSticker runs outside of it.
SendSticker ==
    /\ cmd.op = "sendMessage" /\ cmd.pc = "sticker"
    /\ LET attachment == sent.internalOptions.attachment
           converter == StickerConverter(attachment)
           metadata == Metadata(sent.sendOptions)
           invoked == [converter |-> converter, attachment |-> attachment,
                       metadata |-> metadata]
       IN  \E resolves \in BOOLEAN :
             /\ converter = "toStickerData" => IF resolves THEN RoundTripResolves
                                                ELSE RoundTripRejects
             /\ sent' = [sent EXCEPT
                           !.converters = Append(@, invoked),
                           !.internalOptions.attachment =
                               IF resolves THEN Sticker(converter, attachment, metadata)
                               ELSE @]
             /\ cmd' = IF resolves THEN [cmd EXCEPT !.pc = "dispatch"]
                       ELSE [cmd EXCEPT !.pc = "failed",
                                        !.error = IF converter = "toStickerData"
                                                  THEN "TargetClosed"
                                                  ELSE "ConversionError"]
    /\ call' = [op |-> "sendMessage", step |-> "sticker"]
    /\ Emit(<<>>)
    /\ UNCHANGED <<options, store, observing, loser, disk, lifeVarsNoCount, bridgeVars, takeoverVars>>

SeenAwaited_Awaited == TRUE

\* Line 611: window.WWebJS.sendSeen(chatId); is called without await.
SeenAwaited == FALSE

\* window.WWebJS.sendSeen is an async function of the page: when it fails
\* it gives a rejected promise, it does not throw into its caller.
SeenThrows == FALSE

\* Lines 596-617: the round trip that sends the message; inside it the chat
\* is marked as seen when sendSeen is truthy, and then the message is sent.
SendDispatch ==
    /\ cmd.op = "sendMessage" /\ cmd.pc = "dispatch"
    /\ \E ran \in BOOLEAN, seenRejects \in BOOLEAN :
          LET failsBySeen == seenRejects /\ (SeenAwaited \/ SeenThrows) IN
          /\ ran => RoundTripResolves
          /\ ~ran => RoundTripRejects /\ ~seenRejects
          /\ seenRejects => Truthy(sent.sendSeen)
          /\ sent' = IF ran
                     THEN [sent EXCEPT !.seen = Truthy(sent.sendSeen),
                                       !.seenRejected = seenRejects,
                                       !.dispatched = ~failsBySeen]
                     ELSE sent
          /\ cmd' = IF ran /\ ~failsBySeen
                    THEN [cmd EXCEPT !.pc = "done", !.issued = TRUE]
                    ELSE [cmd EXCEPT !.pc = "failed",
                                     !.error = IF ran THEN "SeenError" ELSE "TargetClosed"]
    /\ call' = [op |-> "sendMessage", step |-> "dispatch"]
    /\ Emit(<<>>)
    /\ UNCHANGED <<options, store, observing, loser, disk, lifeVarsNoCount, bridgeVars, takeoverVars>>

\* Line 617, or the rejection of an await: the call has settled and its
\* locals are gone.
SendSettled ==
    /\ cmd.op = "sendMessage" /\ cmd.pc \in {"done", "failed"}
    /\ cmd' = NoCmd
    /\ sent' = None
    /\ call' = [op |-> "sendMessage", step |-> "settled"]
    /\ Emit(<<>>)
    /\ UNCHANGED <<options, store, observing, loser, disk, lifeVarsNoCount, bridgeVars, takeoverVars>>

NextSend ==
    \/ sendMessage
    \/ SendSticker
    \/ SendDispatch
    \/ SendSettled
    \/ PageClosed

SpecSend == InitBridge /\ [][NextSend]_vars

\* ------------------------------------------------------- pinChat, unpinChat
MaxChats == 5        \* most chats in the chat list

\* Line 809.
MAX_PIN_COUNT == 3

Chat(id, pin) == [id |-> id, pin |-> pin]

\* Store.Chat.models is kept in the order of the chat list: the pinned
\* chats first. Lines 810-811 read the third chat as the lowest pinned one.
Sort(models) ==
    SelectSeq(models, LAMBDA c : c.pin) \o SelectSeq(models, LAMBDA c : ~c.pin)

Pinned(models) == {i \in 1..Len(models) : models[i].pin}

ChatIds(models) == {models[i].id : i \in 1..Len(models)}

\* window.Store.Chat.get(chatId): None when there is no such chat.
Get(models, chatId) ==
    IF chatId \in ChatIds(models)
    THEN models[CHOOSE i \in 1..Len(models) : models[i].id = chatId]
    ELSE None

\* models[i] of JavaScript, whose arrays start at 0.
At(models, i) == models[i + 1]

maxPinned_NextSlot(models) == At(models, MAX_PIN_COUNT).pin

\* Line 811: window.Store.Chat.models[MAX_PIN_COUNT - 1].pin
maxPinned(models) == At(models, MAX_PIN_COUNT - 1).pin

PinBlocked_Never(models) == FALSE

\* Lines 810-815: the pin is refused.
PinBlocked(models) == Len(models) > MAX_PIN_COUNT /\ maxPinned(models)

\* window.Store.Cmd.pinChat(chat, pin) has done its work.
SetPin(models, chatId, pin) ==
    Sort([i \in 1..Len(models) |->
            IF models[i].id = chatId THEN Chat(chatId, pin) ELSE models[i]])

\* The chat ids a call is made with: those of the list, and one of no chat.
NoChatId == 0

\* Lines 803-819: pinChat(chatId) is called and its round trip runs up to
\* the call of Cmd.pinChat, or to the value it returns without it.
pinChat ==
    /\ cmd = NoCmd
    /\ pupBrowser # "null"
    /\ \E chatId \in ChatIds(store.chats) \cup {NoChatId}, ran \in BOOLEAN :
          LET chat == Get(store.chats, chatId)
              returns == IF ~ran \/ chat = None THEN "none"
                         ELSE IF chat.pin THEN "true"
                         ELSE IF PinBlocked(store.chats) THEN "false"
                         ELSE "pending"
          IN  /\ ran => RoundTripResolves
              /\ ~ran => RoundTripRejects
              /\ cmd' = [op |-> "pinChat",
                         pc |-> IF returns = "none" THEN "failed"
                                ELSE IF returns = "pending" THEN "cmd" ELSE "done",
                         issued |-> returns = "pending",
                         error |-> IF ~ran THEN "TargetClosed"
                                   ELSE IF chat = None THEN "TypeError" ELSE "none"]
              /\ store' = IF returns = "pending"
                          THEN [store EXCEPT !.pending = Chat(chatId, TRUE)]
                          ELSE store
              /\ call' = [op |-> "pinChat", step |-> "evaluate", chatId |-> chatId,
                          returned |-> returns]
    /\ Emit(<<>>)
    /\ UNCHANGED <<options, observing, loser, disk, sent, lifeVarsNoCount, bridgeVars, takeoverVars>>

\* Lines 825-834: unpinChat(chatId), in the same way.
unpinChat ==
    /\ cmd = NoCmd
    /\ pupBrowser # "null"
    /\ \E chatId \in ChatIds(store.chats) \cup {NoChatId}, ran \in BOOLEAN :
          LET chat == Get(store.chats, chatId)
              returns == IF ~ran \/ chat = None THEN "none"
                         ELSE IF ~chat.pin THEN "false"
                         ELSE "pending"
          IN  /\ ran => RoundTripResolves
              /\ ~ran => RoundTripRejects
              /\ cmd' = [op |-> "unpinChat",
                         pc |-> IF returns = "none" THEN "failed"
                                ELSE IF returns = "pending" THEN "cmd" ELSE "done",
                         issued |-> returns = "pending",
                         error |-> IF ~ran THEN "TargetClosed"
                                   ELSE IF chat = None THEN "TypeError" ELSE "none"]
              /\ store' = IF returns = "pending"
                          THEN [store EXCEPT !.pending = Chat(chatId, FALSE)]
                          ELSE store
              /\ call' = [op |-> "unpinChat", step |-> "evaluate", chatId |-> chatId,
                          returned |-> returns]
    /\ Emit(<<>>)
    /\ UNCHANGED <<options, observing, loser, disk, sent, lifeVarsNoCount, bridgeVars, takeoverVars>>

\* Lines 817-818, 831-832: Cmd.pinChat settles and the round trip with it.
PinCmd ==
    /\ cmd.op \in {"pinChat", "unpinChat"} /\ cmd.pc = "cmd"
    /\ \E done \in BOOLEAN :
          /\ store' = [store EXCEPT
                         !.pending = None,
                         !.chats = IF done THEN SetPin(@, store.pending.id, store.pending.pin)
                                   ELSE @]
          /\ cmd' = IF done THEN [cmd EXCEPT !.pc = "done"]
                    ELSE [cmd EXCEPT !.pc = "failed", !.error = "CmdError"]
          /\ call' = [op |-> cmd.op, step |-> "cmd", chatId |-> store.pending.id,
                      returned |-> IF ~done THEN "none"
                                   ELSE IF cmd.op = "pinChat" THEN "true" ELSE "false"]
    /\ Emit(<<>>)
    /\ UNCHANGED <<options, observing, loser, disk, sent, lifeVarsNoCount, bridgeVars, takeoverVars>>

\* The promise of the call has settled.
StoreCallSettled ==
    /\ cmd.op \in {"pinChat", "unpinChat", "createGroup"} /\ cmd.pc \in {"done", "failed"}
    /\ cmd' = NoCmd
    /\ call' = [op |-> cmd.op, step |-> "settled"]
    /\ Emit(<<>>)
    /\ UNCHANGED <<options, store, observing, loser, disk, sent, lifeVarsNoCount, bridgeVars, takeoverVars>>

\* An established session whose Store is st.
Established(st) ==
    /\ options = [qrMaxRetries |-> 0, takeoverOnConflict |-> FALSE,
                  useDeprecatedSessionAuth |-> FALSE]
    /\ pc = "failed"
    /\ error = "ReferenceError"
    /\ pupBrowser = "open"
    /\ screen = "main"
    /\ qrRetries = 0
    /\ qrCalls = 0
    /\ destroyCalls = 0
    /\ listening = TRUE
    /\ last_message = None
    /\ call = [op |-> "initialize", step |-> "emitReady"]
    /\ emitted = <<>>
    /\ count = [k \in Counted |-> IF k = "authenticated" THEN 1 ELSE 0]
    /\ timers = 0
    /\ conflicts = 0
    /\ attempts = 0
    /\ logged = 0
    /\ seenIds = {}
    /\ loser = "none"
    /\ disk = TRUE
    /\ cmd = NoCmd
    /\ sent = None
    /\ store = st
    /\ observing = FALSE

\* The chat list has its pinned chats first, not more of them than
\* WhatsApp allows.
InitStore ==
    \E n \in 1..MaxChats, p \in 0..MAX_PIN_COUNT :
        /\ p <= n
        /\ Established([chats |-> [i \in 1..n |-> Chat(i, i <= p)],
                        pending |-> None,
                        groups |-> {}])

NextStore ==
    \/ pinChat
    \/ unpinChat
    \/ PinCmd
    \/ StoreCallSettled
    \/ PageClosed

SpecStore == InitStore /\ [][NextStore]_vars

\* ------------------------------------------------------------- createGroup
MaxGroups == 2       \* groups created in one session

\* Line 978: what createGroup throws for participants it does not accept.
NoParticipants == "You need to add at least one other participant to the group"

\* The participants a call is made with.
Participants ==
    {None, Str("c1"), Array(<<>>), Array(<<Str("c1")>>), Array(<<Contact("c1")>>),
     Array(<<Contact("c1"), Contact("c2")>>), Array(<<Contact("c1"), Str("c2")>>)}

ValidParticipants_AnyArray(participants) == InstanceOf(participants, "Array")

\* Line 977: !(!Array.isArray(participants) || participants.length == 0)
ValidParticipants(participants) ==
    InstanceOf(participants, "Array") /\ Len(participants.fields) # 0

\* Lines 981-983: contacts become their ids when all entries are contacts.
ParticipantIds(participants) ==
    IF \A i \in 1..Len(participants.fields) : InstanceOf(participants.fields[i], "Contact")
    THEN [i \in 1..Len(participants.fields) |-> Serialized(participants.fields[i])]
    ELSE participants.fields

\* Lines 976-989: createGroup(name, participants) is called and, when it
\* accepts the participants, starts its round trip.
createGroup ==
    /\ cmd = NoCmd
    /\ pupBrowser # "null"
    /\ \E participants \in Participants, ran \in BOOLEAN :
          /\ ValidParticipants(participants) => Cardinality(store.groups) < MaxGroups
          /\ IF ~ValidParticipants(participants)
             THEN /\ ran
                  /\ cmd' = [op |-> "createGroup", pc |-> "failed", issued |-> FALSE,
                             error |-> NoParticipants]
                  /\ UNCHANGED store
             ELSE /\ ran => RoundTripResolves
                  /\ ~ran => RoundTripRejects
                  /\ cmd' = [op |-> "createGroup",
                             pc |-> IF ran THEN "cmd" ELSE "failed",
                             issued |-> TRUE,
                             error |-> IF ran THEN "none" ELSE "TargetClosed"]
                  /\ store' = IF ran
                              THEN [store EXCEPT !.pending =
                                       [name |-> "Test", ids |-> ParticipantIds(participants)]]
                              ELSE store
          /\ call' = [op |-> "createGroup", step |-> "call", participants |-> participants]
    /\ Emit(<<>>)
    /\ UNCHANGED <<options, observing, loser, disk, sent, lifeVarsNoCount, bridgeVars, takeoverVars>>

\* Lines 985-999: sendCreateGroup settles; the participants whose status
\* code is not 200 are returned as missing.
GroupCmd ==
    /\ cmd.op = "createGroup" /\ cmd.pc = "cmd"
    /\ \E done \in BOOLEAN, codes \in [1..Len(store.pending.ids) -> {200, 403}] :
          LET gid == Cardinality(store.groups) + 1
              missing == {i \in 1..Len(codes) : codes[i] # 200}
          IN  /\ ~done => missing = {}
              /\ store' = [store EXCEPT
                             !.pending = None,
                             !.groups = IF done
                                        THEN @ \cup {[gid |-> gid, name |-> store.pending.name,
                                                      ids |-> store.pending.ids]}
                                        ELSE @]
              /\ cmd' = IF done THEN [cmd EXCEPT !.pc = "done"]
                        ELSE [cmd EXCEPT !.pc = "failed", !.error = "CmdError"]
              /\ call' = [op |-> "createGroup", step |-> "cmd",
                          returned |-> IF done
                                       THEN [gid |-> gid,
                                             missingParticipants |->
                                                 {store.pending.ids[i] : i \in missing}]
                                       ELSE None]
    /\ Emit(<<>>)
    /\ UNCHANGED <<options, observing, loser, disk, sent, lifeVarsNoCount, bridgeVars, takeoverVars>>

InitGroup == Established(NoStore)

NextGroup ==
    \/ createGroup
    \/ GroupCmd
    \/ StoreCallSettled
    \/ PageClosed

SpecGroup == InitGroup /\ [][NextGroup]_vars

\* ------------------------------------------------------------ whole session
\* initialize() together with what the page notifies once the listeners
\* are installed, and the host's destroy().
NextSession ==
    \/ Next
    \/ StoreMsgAck
    \/ AppStateChanged
    \/ Destroy

SpecSession == Init /\ [][NextSession]_vars

\* ================================================================= claims
Has(evts, name) == \E i \in 1..Len(evts) : evts[i].name = name

NameCount(evts, name) == Cardinality({i \in 1..Len(evts) : evts[i].name = name})

\* C1 (as claimed): once the listeners are installed and initialize() has
\* ended, it has ended without error and `ready` has been emitted exactly once.
C1_ReadyReached ==
    (listening /\ pc \in {"done", "failed"}) =>
        (pc = "done" /\ error = "none" /\ count["ready"] = 1)

\* C2: a new message-added record that is no group notification gives
\* exactly one message_create for it; `message` for it iff it is not fromMe,
\* and then after the message_create.
C2_MessageCreateThenMessage ==
    (call.op = "add" /\ call.msg.isNewMsg /\ call.msg.type # "gp2") =>
        /\ NameCount(emitted, "message_create") = 1
        /\ emitted[1] = Event("message_create", <<call.msg>>)
        /\ Has(emitted, "message") <=> ~call.msg.id.fromMe
        /\ \A i \in 1..Len(emitted) :
              emitted[i].name = "message" =>
                  i = 2 /\ emitted[i].args = <<call.msg>>
        /\ Len(emitted) <= 2

C2_Witness ==
    /\ call.op = "add" /\ call.msg.isNewMsg /\ call.msg.type # "gp2"
    /\ ~call.msg.id.fromMe
    /\ Names(emitted) = <<"message_create", "message">>

\* C3: a message-added record whose isNewMsg is false gives no event,
\* whatever its type and origin, at the listener and at the callback.
C3_NotNewNoEvent ==
    /\ (call.op = "add" /\ ~call.msg.isNewMsg) => emitted = <<>>
    /\ \A msg \in AddMsgs : ~msg.isNewMsg => onAddMessageEvent(msg) = <<>>

C3_Witness ==
    call.op = "add" /\ ~call.msg.isNewMsg /\ call.msg.type = "gp2" /\ emitted = <<>>

\* C4: a new group notification (type gp2) gives exactly one event, the
\* group event of its subtype, and neither message nor message_create.
C4_GroupNotification ==
    (call.op = "add" /\ call.msg.isNewMsg /\ call.msg.type = "gp2") =>
        /\ Len(emitted) = 1
        /\ emitted[1].args = <<call.msg>>
        /\ emitted[1].name =
              CASE call.msg.subtype \in {"add", "invite"} -> "group_join"
                [] call.msg.subtype \in {"remove", "leave"} -> "group_leave"
                [] OTHER -> "group_update"

C4_Witness ==
    /\ call.op = "add" /\ call.msg.isNewMsg /\ call.msg.type = "gp2"
    /\ call.msg.subtype = "leave"
    /\ Names(emitted) = <<"group_leave">>

\* C5: a change notification for a message with a type other than revoked,
\* followed by the type-change of that message to revoked, gives exactly one
\* message_revoke_everyone whose prior content is the record of the first.
C5_RevokeCarriesCached ==
    [][(/\ call.op = "change" /\ call.msg.type # "revoked"
        /\ call'.op = "changeType" /\ call'.msg.type = "revoked"
        /\ call'.msg.id = call.msg.id)
       => emitted' = <<Event("message_revoke_everyone", <<call'.msg, call.msg>>)>>]_vars

C5_Witness ==
    /\ call.op = "changeType" /\ call.msg.type = "revoked"
    /\ Len(emitted) = 1
    /\ emitted[1].args[2] # None
    /\ emitted[1].args[2].body = "edited"

C7_ExhaustedByRefreshNPlus1 ==
    options.qrMaxRetries > 0 =>
        (count["disconnected_max_retries"] >= 1
            <=> qrCalls >= options.qrMaxRetries + 2)

\* C7 (amended): with qrMaxRetries = N > 0 the counter goes up by one at
\* every qrChanged callback, the first one included, so the retries are
\* used up by callback N+1, which is refresh N, and by no earlier callback.
C7_ExhaustedByCallbackNPlus1 ==
    options.qrMaxRetries > 0 =>
        /\ qrRetries = qrCalls
        /\ count["disconnected_max_retries"] >= 1
              <=> qrCalls >= options.qrMaxRetries + 1
        /\ (call.op = "qrChanged" /\ qrCalls <= options.qrMaxRetries)
              => Names(emitted) = <<"qr">>

C7_Witness ==
    /\ options.qrMaxRetries = 2
    /\ call.op = "qrChanged" /\ ~call.initial
    /\ qrCalls = 3
    /\ Names(emitted) = <<"qr", "disconnected">>

\* C8 (as claimed): once the retries are used up there has been exactly one
\* `disconnected` for it in the session, also after later callbacks, and
\* close() has been called on the browser.
C8_OneDisconnected ==
    (options.qrMaxRetries > 0 /\ qrCalls > options.qrMaxRetries) =>
        /\ count["disconnected_max_retries"] = 1
        /\ pupBrowser \in {"closing", "closed"}

\* C9 (as claimed): a connection-state notification gives exactly one event.
C9_ExactlyOneEvent ==
    call.op = "appState" =>
        /\ Len(emitted) = 1
        /\ emitted[1].name =
              IF call.state \in {"CONNECTED", "OPENING", "PAIRING", "TIMEOUT"}
              THEN "change_state" ELSE "disconnected"

\* C9 (amended): a connection-state notification always gives change_state
\* with the state, first; it gives `disconnected` with the state after it
\* iff the state is outside {connected, opening, pairing, timeout}, and
\* outside conflict too when takeoverOnConflict is set; and nothing else.
C9_ChangeStateThenDisconnected ==
    call.op = "appState" =>
        LET accepted ==
                \/ call.state \in {"CONNECTED", "OPENING", "PAIRING", "TIMEOUT"}
                \/ (options.takeoverOnConflict /\ call.state = "CONFLICT")
        IN  emitted = IF accepted
                      THEN <<Event("change_state", <<call.state>>)>>
                      ELSE <<Event("change_state", <<call.state>>),
                             Event("disconnected", <<call.state>>)>>

C9_Witness ==
    /\ call.op = "appState" /\ call.state = "UNPAIRED"
    /\ Names(emitted) = <<"change_state", "disconnected">>

\* C10: with takeoverOnConflict a conflict gives no `disconnected` and sets
\* a takeover timer; the timer's callback tries the takeover, emits nothing
\* and throws nothing, a failed takeover being logged; every timer set
\* fires. Without takeoverOnConflict a conflict gives `disconnected` and no
\* takeover is ever set or tried.
C10_TakeoverOnConflict ==
    /\ [][/\ (call'.op = "appState" /\ call'.state = "CONFLICT") =>
                IF options.takeoverOnConflict
                THEN ~Has(emitted', "disconnected") /\ timers' = timers + 1
                ELSE /\ emitted'[Len(emitted')] = Event("disconnected", <<"CONFLICT">>)
                     /\ timers' = 0
          /\ call'.op = "takeover" =>
                /\ emitted' = <<>>
                /\ error' = error /\ pc' = pc
                /\ attempts' = attempts + 1
                /\ timers' = timers - 1
                /\ logged' = IF call'.resolved THEN logged ELSE logged + 1]_vars
    /\ [](~options.takeoverOnConflict => timers = 0 /\ attempts = 0)
    /\ [](attempts + timers = conflicts)
    /\ \A k \in 0..MaxConflicts : (timers > 0 /\ attempts = k) ~> (attempts > k)

C10_Witness ==
    /\ options.takeoverOnConflict
    /\ call.op = "takeover" /\ ~call.resolved
    /\ pupBrowser = "closed"
    /\ logged = 2 /\ attempts = 3
    /\ count["disconnected_max_retries"] = 0

\* C11 (as claimed): a navigation of the page of a session whose
\* initialize() has installed the callbacks and listeners gives
\* `disconnected` with reason NAVIGATION.
C11_NavigationDisconnects ==
    (call.op = "page" /\ call.step = "navigated" /\ call.installed) =>
        emitted = <<Event("disconnected", <<"NAVIGATION">>)>>

\* C12 (as claimed): the closing of the page gives `disconnected` with
\* reason "page closed".
C12_PageClosedDisconnects ==
    (call.op = "page" /\ call.step = "pageClosed") =>
        emitted = <<Event("disconnected", <<"page closed">>)>>

\* C13: the wait that settles first decides. The authenticated marker goes
\* on without the QR flow, the QR marker starts the QR flow, an error makes
\* initialize() reject with it; the QR flow starts nowhere else; nothing
\* has been emitted when the race is settled, and after a rejection nothing
\* is; the losing wait changes nothing when it settles.
C13_RaceDecides ==
    /\ [][/\ (call'.op = "initialize" /\ call'.step = "race") =>
                /\ count' = [k \in Counted |-> 0]
                /\ pc' = CASE call'.outcome = "error" -> "failed"
                            [] call'.wait = "qr" -> "qrExpose"
                            [] OTHER -> "exposeStore"
                /\ error' = call'.err
                /\ call'.outcome = "error" <=> error' # "none"
          /\ (pc' = "qrExpose" /\ pc # "qrExpose") =>
                /\ call'.op = "initialize" /\ call'.step = "race"
                /\ call'.wait = "qr" /\ call'.outcome = "found"
          /\ (call'.op = "initialize" /\ call'.step = "raceLoser") =>
                /\ pc' = pc /\ error' = error /\ count' = count
                /\ emitted' = <<>>
                /\ qrCalls' = qrCalls
          /\ (pc = "failed" /\ qrCalls = 0) => count' = count /\ pc' = "failed"]_vars
    /\ [](error = "TimeoutError" => count = [k \in Counted |-> 0])

C13_Witness ==
    /\ call.op = "initialize" /\ call.step = "raceLoser"
    /\ call.wait = "img" /\ call.outcome = "found"
    /\ pc = "waitStore"
    /\ qrCalls = 2

\* C14: `authenticated` is emitted only while the authenticated marker is
\* shown; once the QR flow has begun initialize() does not end by a
\* timeout, however many tokens are emitted: the wait for the scan ends
\* with the marker, or with the browser closing or closed.
C14_ScanWaitUnbounded ==
    /\ [][/\ count'["authenticated"] > count["authenticated"] =>
                screen = "main" /\ screen' = "main"
          /\ (pc = "waitScan" /\ pc' # "waitScan") =>
                \/ pc' = "exposeStore" /\ screen = "main"
                \/ /\ pc' = "failed" /\ error' = "TargetClosed"
                   /\ pupBrowser \in {"closing", "closed"}]_vars
    /\ [](qrCalls > 0 => error # "TimeoutError")

C14_Witness ==
    /\ pc = "waitScan"
    /\ options.qrMaxRetries = 0
    /\ qrCalls = MaxQrCalls
    /\ count["qr"] = MaxQrCalls
    /\ count["authenticated"] = 0

\* C15 (as claimed): a logout() whose logout of the page has resolved ends
\* without error and with the session directory gone.
C15_LogoutRemovesDataDir ==
    (cmd.op = "logout" /\ cmd.issued /\ cmd.pc # "remove") =>
        cmd.pc = "done" /\ cmd.error = "none" /\ ~disk

\* The payload fields of the content variants.
VariantFields == {"location", "contactCard", "contactCardList", "buttons", "list"}

\* The payload fields that are set in a record of internal options.
Payloads(io) == {k \in VariantFields : io[k] # None}

\* The payload field of the variant a content value is of, if any.
VariantField(content) ==
    IF InstanceOf(content, "Location") THEN "location"
    ELSE IF InstanceOf(content, "Contact") THEN "contactCard"
    ELSE IF IsContactArray(content) THEN "contactCardList"
    ELSE IF InstanceOf(content, "Buttons") THEN "buttons"
    ELSE IF InstanceOf(content, "List") THEN "list"
    ELSE "none"

\* The keys given through options.extra.
ExtraKeys(opts) == IF opts.extra = None THEN {} ELSE DOMAIN opts.extra

\* Media is the content, or is given in options.media.
MediaGiven(content, opts) ==
    InstanceOf(content, "MessageMedia") \/ InstanceOf(opts.media, "MessageMedia")

MediaButtons(content) ==
    InstanceOf(content, "Buttons") /\ content.fields.type # "chat"

\* C17 (as claimed): in every call at most one variant payload is set, an
\* attachment is set only when media is given or the content is a Buttons
\* that is not of type 'chat', and the message is the original string for
\* text and the empty string for everything else.
C17_ExactlyOneVariant ==
    cmd.op = "sendMessage" =>
        /\ Cardinality(Payloads(sent.internalOptions)) <= 1
        /\ sent.resolved # None =>
              MediaGiven(sent.content, sent.sendOptions) \/ MediaButtons(sent.content)
        /\ sent.message =
              IF sent.content.type = "string" /\ sent.sendOptions.media = None
              THEN sent.content ELSE Str("")

\* C17 (amended): every variant payload that is set is the one of the
\* content's variant or was given in options.extra, an attachment is set
\* only when media is given, the content is a Buttons not of type 'chat',
\* or options.extra gives one, and the message is the empty string when a
\* branch of the resolution matched and the content itself otherwise.
C17_OneVariantBesidesExtra ==
    cmd.op = "sendMessage" =>
        /\ Payloads(sent.internalOptions)
              \subseteq (ExtraKeys(sent.sendOptions) \cup {VariantField(sent.content)})
        /\ Cardinality(Payloads(sent.internalOptions) \ ExtraKeys(sent.sendOptions)) <= 1
        /\ sent.resolved # None =>
              \/ MediaGiven(sent.content, sent.sendOptions)
              \/ MediaButtons(sent.content)
              \/ "attachment" \in ExtraKeys(sent.sendOptions)
        /\ sent.message =
              IF \/ MediaGiven(sent.content, sent.sendOptions)
                 \/ VariantField(sent.content) # "none"
              THEN Str("") ELSE sent.content

\* A Contact was sent with a location in options.extra: both payloads went out.
C17_Witness ==
    /\ cmd.op = "sendMessage" /\ cmd.pc = "done"
    /\ InstanceOf(sent.content, "Contact")
    /\ Payloads(sent.internalOptions) = {"location", "contactCard"}

\* C18 (as claimed): with options.media given, media that is the content
\* still is the attachment, and a content that is a Location, a Contact, an
\* array of contacts, a Buttons or a List still has its own payload set.
C18_MediaOptionOnlyForNonUnion ==
    (cmd.op = "sendMessage" /\ InstanceOf(sent.sendOptions.media, "MessageMedia")) =>
        /\ InstanceOf(sent.content, "MessageMedia") => sent.resolved = sent.content
        /\ VariantField(sent.content) # "none" =>
              sent.internalOptions[VariantField(sent.content)] # None

\* C19 (as claimed): a non-empty array of n contacts is sent as a
\* contactCardList of their n serialized ids in the order of the array,
\* with an empty message and nothing else set.
C19_ContactCardList ==
    (cmd.op = "sendMessage" /\ IsContactArray(sent.content)) =>
        /\ sent.internalOptions.contactCardList =
              Array([i \in 1..Len(sent.content.fields) |->
                        Str(sent.content.fields[i].fields.id)])
        /\ sent.message = Str("")
        /\ Payloads(sent.internalOptions) = {"contactCardList"}
        /\ sent.resolved = None

\* C20: a converter is called iff sendMediaAsSticker is truthy and the
\* resolution left an attachment; then exactly one is called, before the
\* message is sent: toStickerData for an image and formatToWebpSticker for
\* anything else, with the attachment and the name, author and categories
\* of the options, and its result is the attachment that is sent. Otherwise
\* no converter is called and the attachment is sent as resolved.
C20_StickerConversion ==
    cmd.op = "sendMessage" =>
        LET needs == Truthy(sent.internalOptions.sendMediaAsSticker) /\ sent.resolved # None
            expected ==
                [converter |-> IF sent.resolved.fields.mimetype[1] = "image"
                               THEN "toStickerData" ELSE "formatToWebpSticker",
                 attachment |-> sent.resolved,
                 metadata |-> [name |-> sent.sendOptions.stickerName,
                               author |-> sent.sendOptions.stickerAuthor,
                               categories |-> sent.sendOptions.stickerCategories]]
        IN  /\ cmd.pc = "sticker" => needs /\ sent.converters = <<>>
            /\ ~needs => /\ sent.converters = <<>>
                         /\ sent.internalOptions.attachment = sent.resolved
            /\ (needs /\ cmd.pc # "sticker") => sent.converters = <<expected>>
            /\ (needs /\ cmd.pc \in {"dispatch", "done"}) =>
                  sent.internalOptions.attachment =
                      Sticker(expected.converter, sent.resolved, expected.metadata)
            /\ sent.dispatched => cmd.pc = "done"

\* A video was sent as a sticker, with a name and an author.
C20_Witness ==
    /\ cmd.op = "sendMessage" /\ cmd.pc = "done" /\ sent.dispatched
    /\ Len(sent.converters) = 1
    /\ sent.converters[1].converter = "formatToWebpSticker"
    /\ sent.converters[1].metadata.name = Str("name")
    /\ sent.converters[1].metadata.author = Str("author")

C24_CreateGroupValidates ==
    [][(/\ call'.op = "createGroup" /\ call'.step = "call"
        /\ \/ ~InstanceOf(call'.participants, "Array")
           \/ call'.participants = Array(<<>>)) =>
           /\ cmd'.pc = "failed"
           /\ cmd'.error = "You need to add at least one other participant to the group"
           /\ ~cmd'.issued
           /\ store' = store
           /\ store'.pending = None]_vars

\* An empty list of participants was refused in a session that has a group.
C24_Witness ==
    /\ call.op = "createGroup" /\ call.step = "call"
    /\ call.participants = Array(<<>>)
    /\ cmd.pc = "failed" /\ ~cmd.issued
    /\ store.groups # {}

\* C25: last_message is one slot. A change notification whose record is
\* not of type 'revoked' puts that record into it, whole; nothing else
\* writes it; it never holds a record of type 'revoked'.
C25_SingleSlotCache ==
    /\ [](last_message = None \/ (last_message \in ChangeMsgs /\ last_message.type # "revoked"))
    /\ [][/\ (call'.op = "change" /\ call'.msg.type # "revoked") => last_message' = call'.msg
          /\ last_message' # last_message =>
                (call'.op = "change" /\ call'.msg.type # "revoked")]_vars

\* Records of two messages were cached one after the other, and a revoked
\* record of the second then left the slot alone.
C25_Witness ==
    /\ call.op = "change" /\ call.msg.type = "revoked"
    /\ last_message # None
    /\ last_message.id = call.msg.id
    /\ last_message.body = "edited"
    /\ Cardinality(seenIds) = 2

\* C26 (as claimed): message_revoke_everyone carries a prior content iff
\* the cached record is of the message that is revoked, and a prior content
\* that it carries is of that message.
C26_PriorContentOfSameMessage ==
    (call.op = "changeType" /\ call.msg.type = "revoked") =>
        /\ Len(emitted) = 1
        /\ emitted[1].name = "message_revoke_everyone"
        /\ emitted[1].args[2] # None <=>
              (last_message # None /\ last_message.id = call.msg.id)
        /\ emitted[1].args[2] # None => emitted[1].args[2].id = call.msg.id

\* C27: a change of isUnsentMedia gives media_uploaded, once and with the
\* message, iff the message is fromMe and is not unsent any more; any
\* other gives no event.
C27_MediaUploaded ==
    call.op = "isUnsentMedia" =>
        emitted = IF call.msg.id.fromMe /\ ~call.unsent
                  THEN <<Event("media_uploaded", <<call.msg>>)>>
                  ELSE <<>>

C27_Witness ==
    /\ call.op = "isUnsentMedia" /\ call.msg.id.fromMe /\ ~call.unsent
    /\ Names(emitted) = <<"media_uploaded">>

\* C28 (as claimed): `authenticated` and `ready` are emitted at most once,
\* `ready` only after `authenticated`, no `qr` after `authenticated`, and
\* no `authenticated` or `ready` after the `disconnected` of the used-up
\* retries.
C28_LifecycleMonotonic ==
    /\ [](count["authenticated"] <= 1 /\ count["ready"] <= 1)
    /\ [][/\ Has(emitted', "qr") => count["authenticated"] = 0
          /\ Has(emitted', "ready") => count["authenticated"] = 1
          /\ (Has(emitted', "authenticated") \/ Has(emitted', "ready")) =>
                count["disconnected_max_retries"] = 0]_vars

\* C29: a connection-state notification that emits `disconnected`, and a
\* navigation whose handler does, calls no destroy() and leaves the browser
\* and the listeners as they are, so that a notification of the Store
\* after it still gives its event; destroy() is called by qrChanged when
\* the retries are used up, and by the host, and by nothing else.
C29_DisconnectedKeepsSession ==
    /\ []((call.op = "appState" /\ Has(emitted, "disconnected")) => Delivering)
    /\ [][/\ (/\ Has(emitted', "disconnected")
              /\ \/ call'.op = "appState"
                 \/ (call'.op = "page" /\ call'.step = "navigated")) =>
                   /\ pupBrowser' = pupBrowser
                   /\ destroyCalls' = destroyCalls
                   /\ listening' = listening
          /\ (call.op = "appState" /\ Has(emitted, "disconnected") /\ call'.op = "ack") =>
                emitted' = <<Event("message_ack", <<call'.msg, call'.ack>>)>>
          /\ destroyCalls' # destroyCalls =>
                \/ call'.op = "destroy"
                \/ call'.op = "qrChanged" /\ Has(emitted', "disconnected")]_vars

\* The connection state went to CONFLICT, which is not taken over: the
\* session was told `disconnected` and is as it was.
C29_Witness ==
    /\ call.op = "appState" /\ call.state = "CONFLICT"
    /\ Names(emitted) = <<"change_state", "disconnected">>
    /\ pupBrowser = "open" /\ destroyCalls = 0 /\ listening

\* The events of the event bridge.
BridgeEvents ==
    {"message", "message_create", "message_ack", "message_revoke_me",
     "message_revoke_everyone", "media_uploaded", "group_join", "group_leave",
     "group_update", "change_state", "incoming_call"}

\* C30 (as claimed): an event of the event bridge is emitted only in a
\* session whose `ready` has been emitted; stated for the events emitted
\* once initialize() has ended.
C30_ReadyBeforeBridgeEvents ==
    (/\ pc \in {"done", "failed"}
     /\ \E i \in 1..Len(emitted) : emitted[i].name \in BridgeEvents) =>
        count["ready"] >= 1

\* C31: with takeoverOnConflict, every `conflict` notification sets a
\* takeover timer of its own; nothing but the firing of a timer takes one
\* away, neither a notification of another connection state (connected
\* included) nor destroy() nor the browser being gone, and a timer that
\* fires issues one takeover command: the commands issued and the timers
\* pending are as many as the conflicts notified, and the k-th conflict
\* leads to the k-th takeover attempt.
C31_TakeoverPerConflict ==
    /\ [][/\ (/\ call'.op = "appState" /\ call'.state = "CONFLICT"
              /\ options.takeoverOnConflict) =>
                /\ timers' = timers + 1
                /\ conflicts' = conflicts + 1
                /\ attempts' = attempts
          /\ timers' < timers =>
                /\ call'.op = "takeover"
                /\ timers' = timers - 1
                /\ attempts' = attempts + 1]_vars
    /\ [](attempts + timers = conflicts)
    /\ \A k \in 1..MaxConflicts : (conflicts >= k) ~> (attempts >= k)

\* The last of the takeovers is issued after destroy() was called and the
\* connection state came back to connected: as many attempts as conflicts.
C31_Witness ==
    /\ options.takeoverOnConflict
    /\ call.op = "takeover" /\ call.state = "CONNECTED"
    /\ destroyCalls >= 1 /\ pupBrowser # "open"
    /\ conflicts = MaxConflicts /\ attempts = MaxConflicts /\ timers = 0

\* C32: in a run where initialize() fails with the unsupported-auth-mode
\* error (useDeprecatedSessionAuth on a MultiDevice account), `authenticated`
\* was emitted before the failure; the step that fails emits nothing, and
\* from then on the Store listeners are not installed, no event of the
\* event bridge is emitted, and neither `ready` nor `auth_failure` is.
C32_UnsupportedAuthAfterAuthenticated ==
    /\ [](error = "UnsupportedAuth" =>
            /\ options.useDeprecatedSessionAuth
            /\ pc = "failed"
            /\ count["authenticated"] = 1
            /\ count["ready"] = 0
            /\ ~listening)
    /\ [][/\ (error # "UnsupportedAuth" /\ error' = "UnsupportedAuth") =>
                /\ count["authenticated"] = 1
                /\ emitted' = <<>>
          /\ error = "UnsupportedAuth" =>
                /\ error' = error
                /\ \A i \in 1..Len(emitted') :
                      emitted'[i].name \notin BridgeEvents \cup {"ready", "auth_failure"}]_vars

\* initialize() has failed with the error and the page went on: it has
\* navigated, and the session has `authenticated` and nothing else.
C32_Witness ==
    /\ error = "UnsupportedAuth"
    /\ call.op = "page" /\ call.step = "navigated"
    /\ emitted = <<>>
    /\ count["authenticated"] = 1 /\ count["ready"] = 0
    /\ ~listening

====
